---- MODULE Spec2Model ----
(***************************************************************************)
(* A model of bitchat-pwa/index.js: the binary packet codec               *)
(* (generateAnnouncePacket, generateMessagePacket, parseReceivedPacket)    *)
(* and the connection handlers of the page.                                *)
(*                                                                         *)
(* A JavaScript string is a sequence of UTF-16 code units; a Uint8Array    *)
(* is a sequence of numbers in 0..255.  Offsets are 0-based as in the      *)
(* source; TLA+ sequences are 1-based, so byte o of a buffer is buf[o+1].  *)
(***************************************************************************)
EXTENDS Integers, Sequences, FiniteSets, TLC

\* ------------------------------------------------------------------ bounds
\* Longest name, and longest name plus content, drawn code unit by code unit.
MaxStrLen == 2
\* Longest run of bytes appended behind a packet.
MaxTrail == 2

\* -------------------------------------------------------- program constants
\* Width of setUint8 / setUint16: values are stored modulo 2^8 and 2^16.
Uint8Mod == 256
Uint16Mod == 65536
\* 15 + 8: what generateAnnouncePacket allocates besides the name.
AnnounceAlloc == 23
\* 15 + 8 + 8: what generateMessagePacket allocates besides the message.
MessageHeaderLen == 31
\* The flags byte of the nested message record.
MsgFlags == 16
\* U+FFFD, what TextEncoder and TextDecoder put for what is malformed.
Replacement == 65533
\* U+FEFF, the byte order mark a default TextDecoder drops when it leads.
BOM == 65279

\* ----------------------------------------------------------------- state
\* The codec calls under check.
VARIABLES
  cOrigin,   \* where cData came from: none, encoded, prefix, extended, retagged, foreign
  cIn,       \* the arguments of the encoder call that built cPacket
  cPacket,   \* what the encoder returned
  cData,     \* the buffer handed to parseReceivedPacket
  cResult    \* what parseReceivedPacket returned for cData

codecVars == <<cOrigin, cIn, cPacket, cData, cResult>>

\* The page: its globals, the Web Bluetooth objects, the calls in flight.
VARIABLES
  currentDevice,          \* let currentDevice: a device or NoDevice
  currentServer,          \* let currentServer: the device whose gatt server it is
  currentCharacteristic,  \* let currentCharacteristic: the device whose characteristic it is
  properties,             \* currentCharacteristic.properties
  discoveredDevices,      \* let discoveredDevices: ids of the devices pushed
  isListening,            \* let isListening
  disabled,               \* the disabled property of each button
  linkUp,                 \* device.gatt.connected, per device
  devListeners,           \* devices that carry the gattserverdisconnected listener
  valueListeners,         \* characteristics (by device) that carry the value listener
  notifying,              \* characteristics (by device) with notifications started
  scan,                   \* the scanForDevices call in flight
  send,                   \* the sendMessages call in flight
  listen,                 \* the startListening call in flight
  bc,                     \* the broadcastToAll call in flight
  firstId,                \* senderId of the first packet written since the page loaded
  announced,              \* sendMessages wrote an announce on the current connection
  lastLog                 \* the outcome logged, or the packet displayed, by the last run

pageVars == <<currentDevice, currentServer, currentCharacteristic, properties,
              discoveredDevices, isListening, disabled>>
adapterVars == <<linkUp, devListeners, valueListeners, notifying>>
callVars == <<scan, send, listen, bc>>
historyVars == <<firstId, announced>>
sessionVars == <<pageVars, adapterVars, callVars, historyVars, lastLog>>

vars == <<codecVars, sessionVars>>

Min(a, b) == IF a < b THEN a ELSE b

\* The value null that parseReceivedPacket returns, as a record so that its
\* type can be asked like any other result's.
Null == [type |-> "null"]

\* ------------------------------------------------------------ TextEncoder
IsHigh(u) == u >= 55296 /\ u <= 56319
IsLow(u) == u >= 56320 /\ u <= 57343

\* The sequences ss[lo], ..., ss[hi] joined, halving the range so that a long
\* buffer is joined in few nested steps.
RECURSIVE Join(_, _, _)
Join(ss, lo, hi) ==
  IF lo > hi THEN <<>>
  ELSE IF lo = hi THEN ss[lo]
  ELSE Join(ss, lo, (lo + hi) \div 2) \o Join(ss, (lo + hi) \div 2 + 1, hi)

\* The UTF-8 bytes of one scalar value.
EncodeScalar(c) ==
  IF c < 128 THEN <<c>>
  ELSE IF c < 2048 THEN <<192 + (c \div 64), 128 + (c % 64)>>
  ELSE IF c < 65536
    THEN <<224 + (c \div 4096), 128 + ((c \div 64) % 64), 128 + (c % 64)>>
  ELSE <<240 + (c \div 262144), 128 + ((c \div 4096) % 64),
         128 + ((c \div 64) % 64), 128 + (c % 64)>>

\* The bytes code unit i of s contributes: a high surrogate followed by a
\* low one gives the four bytes of the pair's scalar value and the low one
\* then gives none; an unpaired surrogate gives the bytes of U+FFFD.
UnitBytes(s, i) ==
  IF IsHigh(s[i]) /\ i < Len(s) /\ IsLow(s[i + 1])
    THEN EncodeScalar(65536 + (s[i] - 55296) * 1024 + (s[i + 1] - 56320))
  ELSE IF IsLow(s[i]) /\ i > 1 /\ IsHigh(s[i - 1]) THEN <<>>
  ELSE IF IsHigh(s[i]) \/ IsLow(s[i]) THEN EncodeScalar(Replacement)
  ELSE EncodeScalar(s[i])

\* encoder.encode(str)
TextEncode(s) == Join([i \in 1..Len(s) |-> UnitBytes(s, i)], 1, Len(s))

\* ------------------------------------------------------------ TextDecoder
\* The UTF-8 decoder of a TextDecoder that is not fatal.  DecodeCont reads
\* the continuation bytes of a sequence: at the end of the buffer, or at a
\* byte outside lo..hi, the sequence gives U+FFFD and that byte is read
\* again as the start of the next one.
RECURSIVE DecodeCont(_, _, _, _, _, _)
DecodeCont(b, i, need, cp, lo, hi) ==
  IF i > Len(b) THEN [cp |-> Replacement, next |-> i]
  ELSE IF b[i] < lo \/ b[i] > hi THEN [cp |-> Replacement, next |-> i]
  ELSE IF need = 1 THEN [cp |-> cp * 64 + (b[i] - 128), next |-> i + 1]
  ELSE DecodeCont(b, i + 1, need - 1, cp * 64 + (b[i] - 128), 128, 191)

\* The scalar value that starts at byte i, and where the next one starts.
DecodeOne(b, i) ==
  LET x == b[i] IN
    IF x <= 127 THEN [cp |-> x, next |-> i + 1]
    ELSE IF x >= 194 /\ x <= 223
      THEN DecodeCont(b, i + 1, 1, x - 192, 128, 191)
    ELSE IF x >= 224 /\ x <= 239
      THEN DecodeCont(b, i + 1, 2, x - 224,
                      IF x = 224 THEN 160 ELSE 128,
                      IF x = 237 THEN 159 ELSE 191)
    ELSE IF x >= 240 /\ x <= 244
      THEN DecodeCont(b, i + 1, 3, x - 240,
                      IF x = 240 THEN 144 ELSE 128,
                      IF x = 244 THEN 143 ELSE 191)
    ELSE [cp |-> Replacement, next |-> i + 1]

\* At most k scalar values from byte i on, and where the next one starts.
RECURSIVE DecodeRun(_, _, _)
DecodeRun(b, i, k) ==
  IF i > Len(b) \/ k = 0 THEN [out |-> <<>>, next |-> i]
  ELSE LET one == DecodeOne(b, i)
           rest == DecodeRun(b, one.next, k - 1)
       IN [out |-> <<one.cp>> \o rest.out, next |-> rest.next]

\* All scalar values from byte i on, sixteen at a time.
RECURSIVE DecodeFrom(_, _)
DecodeFrom(b, i) ==
  IF i > Len(b) THEN <<>>
  ELSE LET run == DecodeRun(b, i, 16) IN run.out \o DecodeFrom(b, run.next)

\* A scalar value as the code units of a string.
ScalarUnits(c) ==
  IF c >= 65536
    THEN <<55296 + ((c - 65536) \div 1024), 56320 + ((c - 65536) % 1024)>>
  ELSE <<c>>

FromScalars(cs) == Join([i \in 1..Len(cs) |-> ScalarUnits(cs[i])], 1, Len(cs))

\* new TextDecoder().decode(bytes): ignoreBOM is false, so one leading
\* U+FEFF is dropped.
TextDecode(b) ==
  LET cs == DecodeFrom(b, 1) IN
    FromScalars(IF cs # <<>> /\ cs[1] = BOM THEN Tail(cs) ELSE cs)

\* ------------------------------------------------------- DataView, arrays
\* The w bytes of n, most significant first (setUint16, setBigUint64 with
\* littleEndian false).
RECURSIVE BigEndian(_, _)
BigEndian(n, w) ==
  IF w = 0 THEN <<>> ELSE BigEndian(n \div Uint8Mod, w - 1) \o <<n % Uint8Mod>>

\* getUint16 / getBigUint64 with littleEndian false.
RECURSIVE FromBigEndian(_)
FromBigEndian(b) ==
  IF b = <<>> THEN 0
  ELSE FromBigEndian(SubSeq(b, 1, Len(b) - 1)) * Uint8Mod + b[Len(b)]

\* new ArrayBuffer(n): n zero bytes.
Zeros(n) == [i \in 1..n |-> 0]

\* uint8View.set(bytes, offset) and the DataView setters: the buffer with
\* bytes written from offset on.
SetBytes(buf, offset, bytes) ==
  [i \in 1..Len(buf) |->
     IF i > offset /\ i <= offset + Len(bytes) THEN bytes[i - offset]
     ELSE buf[i]]

\* A DataView read of n bytes at offset throws a RangeError unless it lies
\* inside the buffer.
InBounds(data, offset, n) == offset + n <= Len(data)

\* A mutation of Slice: the slice runs to the end of the buffer.
Slice_ToBufferEnd(data, from, to) == SubSeq(data, Min(from, Len(data)) + 1, Len(data))

\* uint8View.slice(from, to): clamped to the buffer, it never throws.
Slice(data, from, to) == SubSeq(data, Min(from, Len(data)) + 1, Min(to, Len(data)))

\* b.toString(16).padStart(2, "0"), as the two code units of the digits.
HexDigit(n) == IF n < 10 THEN 48 + n ELSE 87 + n
RECURSIVE HexString(_)
HexString(b) ==
  IF b = <<>> THEN <<>>
  ELSE <<HexDigit(b[1] \div 16), HexDigit(b[1] % 16)>> \o HexString(Tail(b))

\* ------------------------------------------------------------- the codec
\* The eight 0xff bytes of the broadcast recipient.
BroadcastRecipient == [i \in 1..8 |-> 255]

\* The packet buffer after the header fields both encoders write: the two
\* type bytes, ttl, timestamp, flags, payload length and senderId.
WriteHeader(buf, type2, ttl, timestamp, flags, payloadLength, senderId) ==
  LET b1 == SetBytes(buf, 0, <<1, type2, ttl % Uint8Mod>>)
      b2 == SetBytes(b1, 3, BigEndian(timestamp, 8))
      b3 == SetBytes(b2, 11, <<flags>>)
      b4 == SetBytes(b3, 12, BigEndian(payloadLength % Uint16Mod, 2))
  IN SetBytes(b4, 14, senderId)

\* A slip in generateAnnouncePacket: the name is written at 15 + 8, the
\* allocation's own count of the header, one byte behind the senderId's end.
generateAnnouncePacket_NameAt23(senderId, senderName, ttl, timestamp) ==
  LET nameBytes == TextEncode(senderName)
      packet == Zeros(AnnounceAlloc + Len(nameBytes))
      header == WriteHeader(packet, 1, ttl, timestamp, 0, Len(nameBytes), senderId)
  IN SetBytes(header, AnnounceAlloc, nameBytes)

\* A mutation of generateAnnouncePacket: the buffer is allocated for the 22
\* header bytes and the name, with no byte to spare.
generateAnnouncePacket_ExactAlloc(senderId, senderName, ttl, timestamp) ==
  LET nameBytes == TextEncode(senderName)
      packet == Zeros(AnnounceAlloc - 1 + Len(nameBytes))
      header == WriteHeader(packet, 1, ttl, timestamp, 0, Len(nameBytes), senderId)
  IN SetBytes(header, 14 + Len(senderId), nameBytes)

\* generateAnnouncePacket(senderId, senderName, ttl), with the value of
\* Date.now() as timestamp.
generateAnnouncePacket(senderId, senderName, ttl, timestamp) ==
  LET nameBytes == TextEncode(senderName)
      packet == Zeros(AnnounceAlloc + Len(nameBytes))
      header == WriteHeader(packet, 1, ttl, timestamp, 0, Len(nameBytes), senderId)
  IN SetBytes(header, 14 + Len(senderId), nameBytes)

\* A slip in generateMessagePacket: the content length is written with the
\* low byte first (setUint16 with littleEndian true).
MessageRecord_LittleEndian(senderId, nameBytes, contentBytes, timestamp, uidBytes) ==
  <<MsgFlags>> \o BigEndian(timestamp, 8)
    \o <<Len(uidBytes) % Uint8Mod>> \o uidBytes
    \o <<Len(nameBytes) % Uint8Mod>> \o nameBytes
    \o <<Len(contentBytes) % Uint8Mod, (Len(contentBytes) \div Uint8Mod) % Uint8Mod>>
    \o contentBytes
    \o <<Len(senderId) % Uint8Mod>> \o senderId

\* The nested message record generateMessagePacket builds first.
MessageRecord(senderId, nameBytes, contentBytes, timestamp, uidBytes) ==
  <<MsgFlags>> \o BigEndian(timestamp, 8)
    \o <<Len(uidBytes) % Uint8Mod>> \o uidBytes
    \o <<Len(nameBytes) % Uint8Mod>> \o nameBytes
    \o BigEndian(Len(contentBytes) % Uint16Mod, 2) \o contentBytes
    \o <<Len(senderId) % Uint8Mod>> \o senderId

\* generateMessagePacket(senderId, senderName, content, ttl), with the
\* values of Date.now() and crypto.randomUUID() as timestamp and uid.
generateMessagePacket(senderId, senderName, content, ttl, timestamp, uid) ==
  LET message == MessageRecord(senderId, TextEncode(senderName),
                               TextEncode(content), timestamp, TextEncode(uid))
      packet == Zeros(MessageHeaderLen + Len(message))
      header == WriteHeader(packet, 4, ttl, timestamp, 1, Len(message), senderId)
      b5 == SetBytes(header, 14 + Len(senderId), BroadcastRecipient)
  IN SetBytes(b5, 14 + Len(senderId) + 8, message)

\* The announce branch of parseReceivedPacket: three DataView reads (ttl,
\* timestamp, nameLength) that throw out of bounds, then two slices.
ParseAnnounce(data) ==
  IF ~InBounds(data, 2, 1) \/ ~InBounds(data, 3, 8) \/ ~InBounds(data, 12, 2)
    THEN Null
  ELSE LET nameLength == FromBigEndian(SubSeq(data, 13, 14))
           senderId == Slice(data, 14, 22)
       IN [type |-> "announce",
           senderName |-> TextDecode(Slice(data, 22, 22 + nameLength)),
           senderId |-> HexString(senderId),
           timestamp |-> FromBigEndian(SubSeq(data, 4, 11))]

\* The message branch: the header reads, then the nested record's reads at
\* msgOffset, each DataView read throwing out of bounds.
ParseMessage(data) ==
  IF ~InBounds(data, 2, 1) \/ ~InBounds(data, 3, 8) \/ ~InBounds(data, 12, 2)
       \/ ~InBounds(data, 30, 1) \/ ~InBounds(data, 31, 8)
       \/ ~InBounds(data, 39, 1)
    THEN Null
  ELSE LET senderId == Slice(data, 14, 22)
           uidLength == data[40]
           uidAt == 40
           nameAt == uidAt + uidLength
       IN IF ~InBounds(data, nameAt, 1) THEN Null
          ELSE LET nameLength == data[nameAt + 1]
                   contentAt == nameAt + 1 + nameLength
               IN IF ~InBounds(data, contentAt, 2) THEN Null
                  ELSE LET contentLength ==
                             FromBigEndian(SubSeq(data, contentAt + 1, contentAt + 2))
                           idAt == contentAt + 2 + contentLength
                       IN IF ~InBounds(data, idAt, 1) THEN Null
                          ELSE [type |-> "message",
                                senderName |->
                                  TextDecode(Slice(data, nameAt + 1, nameAt + 1 + nameLength)),
                                content |->
                                  TextDecode(Slice(data, contentAt + 2, idAt)),
                                senderId |-> HexString(senderId),
                                timestamp |-> FromBigEndian(SubSeq(data, 32, 39)),
                                uid |-> TextDecode(Slice(data, uidAt, uidAt + uidLength))]

\* A slip in parseReceivedPacket: the branch is chosen by the second type
\* byte alone.
parseReceivedPacket_Type2Only(data) ==
  IF ~InBounds(data, 0, 1) \/ ~InBounds(data, 1, 1) THEN Null
  ELSE IF data[2] = 1 THEN ParseAnnounce(data)
  ELSE IF data[2] = 4 THEN ParseMessage(data)
  ELSE Null

\* parseReceivedPacket(data): the two type bytes are read first (a read out
\* of bounds throws and the catch returns null), then the branch is taken.
parseReceivedPacket(data) ==
  IF ~InBounds(data, 0, 1) \/ ~InBounds(data, 1, 1) THEN Null
  ELSE IF data[1] = 1 /\ data[2] = 1 THEN ParseAnnounce(data)
  ELSE IF data[1] = 1 /\ data[2] = 4 THEN ParseMessage(data)
  ELSE Null

\* ---------------------------------------------------------- codec inputs
\* Code units the strings are drawn from: "A", U+00E9 (2 bytes), U+20AC
\* (3 bytes), U+FEFF, and the surrogate pair of U+1F600 (4 bytes), whose
\* halves may also stand alone.
CodeUnits == {65, 233, 8364, BOM, 55357, 56832}

\* All strings of at most n code units.
Strings(n) == UNION {[1..k -> CodeUnits] : k \in 0..n}

\* Names at and just over the width of the one-byte length prefix.
LongNames == {[i \in 1..(Uint8Mod - 1) |-> 65], [i \in 1..Uint8Mod |-> 65]}

\* "Alice"
Alice == <<65, 108, 105, 99, 101>>

Names == Strings(MaxStrLen) \cup LongNames \cup {Alice}

\* Name and content of a message: short ones together, a long name alone.
NameContents ==
  {nc \in Strings(MaxStrLen) \X Strings(MaxStrLen) :
     Len(nc[1]) + Len(nc[2]) <= MaxStrLen}
    \cup {<<n, <<>>>> : n \in LongNames}

\* Values of generateSenderId(): 8 random bytes.
SenderIds == {<<1, 2, 3, 4, 5, 6, 7, 8>>, <<0, 255, 16, 171, 9, 128, 127, 10>>}

\* Values of the ttl argument.
TTLs == {0, 3, 255}

\* Values of crypto.randomUUID(): 36 code units, hyphens at 9, 14, 19, 24.
Uuid(c) == [i \in 1..36 |-> IF i \in {9, 14, 19, 24} THEN 45 ELSE c]

\* What one encoder call takes from its surroundings: the caller's senderId,
\* Date.now() and crypto.randomUUID().
Draws ==
  {[senderId |-> <<1, 2, 3, 4, 5, 6, 7, 8>>, timestamp |-> 1, uid |-> Uuid(52)],
   [senderId |-> <<0, 255, 16, 171, 9, 128, 127, 10>>, timestamp |-> 66000,
    uid |-> Uuid(102)]}

\* Bytes that follow a packet in an oversized buffer.
Trailers == UNION {[1..k -> {0, 255}] : k \in 1..MaxTrail}

\* First bytes of buffers that did not come from the encoders.
TagBytes == {1, 2, 4}

NoInput == [kind |-> "none"]
NotParsed == [type |-> "none"]

CodecAtRest ==
  /\ cOrigin = "none"
  /\ cIn = NoInput
  /\ cPacket = <<>>
  /\ cData = <<>>
  /\ cResult = NotParsed

\* A call of generateAnnouncePacket.
EncodeAnnounce ==
  /\ cOrigin = "none"
  /\ \E d \in Draws, name \in Names, ttl \in TTLs :
       /\ cIn' = [kind |-> "announce", senderId |-> d.senderId, name |-> name,
                  content |-> <<>>, ttl |-> ttl, timestamp |-> d.timestamp,
                  uid |-> <<>>]
       /\ cPacket' = generateAnnouncePacket(d.senderId, name, ttl, d.timestamp)
  /\ cData' = cPacket'
  /\ cOrigin' = "encoded"
  /\ cResult' = NotParsed
  /\ UNCHANGED sessionVars

\* A call of generateMessagePacket.
EncodeMessage ==
  /\ cOrigin = "none"
  /\ \E d \in Draws, nc \in NameContents, ttl \in TTLs :
       /\ cIn' = [kind |-> "message", senderId |-> d.senderId, name |-> nc[1],
                  content |-> nc[2], ttl |-> ttl, timestamp |-> d.timestamp,
                  uid |-> d.uid]
       /\ cPacket' = generateMessagePacket(d.senderId, nc[1], nc[2], ttl,
                                           d.timestamp, d.uid)
  /\ cData' = cPacket'
  /\ cOrigin' = "encoded"
  /\ cResult' = NotParsed
  /\ UNCHANGED sessionVars

\* The receiver gets only the first k bytes of the packet.
Truncate ==
  /\ cOrigin = "encoded" /\ cResult = NotParsed
  /\ \E k \in 0..(Len(cPacket) - 1) : cData' = SubSeq(cPacket, 1, k)
  /\ cOrigin' = "prefix"
  /\ UNCHANGED <<cIn, cPacket, cResult>>
  /\ UNCHANGED sessionVars

\* The receiver gets the packet in a larger buffer.
Extend ==
  /\ cOrigin = "encoded" /\ cResult = NotParsed
  /\ \E s \in Trailers : cData' = cPacket \o s
  /\ cOrigin' = "extended"
  /\ UNCHANGED <<cIn, cPacket, cResult>>
  /\ UNCHANGED sessionVars

\* The receiver gets the packet's bytes behind two other type bytes.
Retag ==
  /\ cOrigin = "encoded" /\ cResult = NotParsed
  /\ \E t1 \in TagBytes, t2 \in TagBytes : cData' = SetBytes(cPacket, 0, <<t1, t2>>)
  /\ cOrigin' = "retagged"
  /\ UNCHANGED <<cIn, cPacket, cResult>>
  /\ UNCHANGED sessionVars

\* The receiver gets a buffer of at most two bytes.
Foreign ==
  /\ cOrigin = "none"
  /\ cData' \in UNION {[1..k -> TagBytes] : k \in 0..2}
  /\ cOrigin' = "foreign"
  /\ UNCHANGED <<cIn, cPacket, cResult>>
  /\ UNCHANGED sessionVars

\* A call of parseReceivedPacket on the buffer.
Decode ==
  /\ cOrigin # "none" /\ cResult = NotParsed
  /\ cResult' = parseReceivedPacket(cData)
  /\ UNCHANGED <<cOrigin, cIn, cPacket, cData>>
  /\ UNCHANGED sessionVars

\* The codec keeps nothing between calls.
CodecReset ==
  /\ cResult # NotParsed
  /\ cOrigin' = "none"
  /\ cIn' = NoInput
  /\ cPacket' = <<>>
  /\ cData' = <<>>
  /\ cResult' = NotParsed
  /\ UNCHANGED sessionVars

CodecNext ==
  \/ EncodeAnnounce
  \/ EncodeMessage
  \/ Truncate
  \/ Extend
  \/ Retag
  \/ Foreign
  \/ Decode
  \/ CodecReset



\* ------------------------------------------------------- codec properties
\* A string without an unpaired surrogate: the text a UTF-8 name or content
\* can stand for.
WellFormed(s) ==
  \A i \in 1..Len(s) :
    /\ IsHigh(s[i]) => (i < Len(s) /\ IsLow(s[i + 1]))
    /\ IsLow(s[i]) => (i > 1 /\ IsHigh(s[i - 1]))

LeadsWithBOM(s) == s # <<>> /\ s[1] = BOM

\* The encoder's packet was handed to the decoder whole and decoded.
DecodedWhole(kind) ==
  cOrigin = "encoded" /\ cResult # NotParsed /\ cIn.kind = kind

\* The arguments are inside the limits the claims put on them.
WithinLimits ==
  /\ Len(cIn.senderId) = 8
  /\ WellFormed(cIn.name) /\ Len(TextEncode(cIn.name)) <= Uint8Mod - 1
  /\ WellFormed(cIn.content) /\ Len(TextEncode(cIn.content)) <= Uint16Mod - 1
  /\ cIn.ttl \in 0..255

\* C1 as stated: every message within the limits decodes to a message with
\* the same name, content and the hex senderId.
C1_RoundTripAnyName ==
  (DecodedWhole("message") /\ WithinLimits) =>
    /\ cResult.type = "message"
    /\ cResult.senderName = cIn.name
    /\ cResult.content = cIn.content
    /\ cResult.senderId = HexString(cIn.senderId)

\* C1 amended: a message within the limits whose name and content do not
\* begin with U+FEFF decodes to a message with the same name, the same
\* content and the hex rendering of the senderId.
C1_MessageRoundTrip ==
  (DecodedWhole("message") /\ WithinLimits
     /\ ~LeadsWithBOM(cIn.name) /\ ~LeadsWithBOM(cIn.content)) =>
    /\ cResult.type = "message"
    /\ cResult.senderName = cIn.name
    /\ cResult.content = cIn.content
    /\ cResult.senderId = HexString(cIn.senderId)

\* C1 witness: a message with a three-byte name and a two-byte content has
\* been encoded, decoded and recovered.
C1_Witness ==
  /\ DecodedWhole("message")
  /\ cIn.name = <<8364>> /\ cIn.content = <<233>>
  /\ cResult.type = "message"
  /\ cResult.senderName = cIn.name /\ cResult.content = cIn.content

\* C2 as stated: every announce within the limits decodes to an announce
\* with the same name and the hex senderId.
C2_RoundTripAnyName ==
  (DecodedWhole("announce") /\ WithinLimits) =>
    /\ cResult.type = "announce"
    /\ cResult.senderName = cIn.name
    /\ cResult.senderId = HexString(cIn.senderId)

\* C2 amended: an announce within the limits whose name does not begin with
\* U+FEFF decodes to an announce with the same name and the hex rendering
\* of the senderId.
C2_AnnounceRoundTrip ==
  (DecodedWhole("announce") /\ WithinLimits /\ ~LeadsWithBOM(cIn.name)) =>
    /\ cResult.type = "announce"
    /\ cResult.senderName = cIn.name
    /\ cResult.senderId = HexString(cIn.senderId)

\* C2 witness: senderId 01..08 and the name "Alice" came back as "Alice"
\* and "0102030405060708".
C2_Witness ==
  /\ DecodedWhole("announce")
  /\ cIn.name = Alice /\ cIn.senderId = <<1, 2, 3, 4, 5, 6, 7, 8>>
  /\ cResult.type = "announce"
  /\ cResult.senderName = Alice
  /\ cResult.senderId = <<48, 49, 48, 50, 48, 51, 48, 52, 48, 53, 48, 54, 48, 55, 48, 56>>

\* C3: the result decoded from an encoder's packet carries a ttl field equal
\* to the ttl the packet was built with.
C3_TtlPreserved ==
  (cOrigin = "encoded" /\ cResult # NotParsed /\ WithinLimits) =>
    ("ttl" \in DOMAIN cResult /\ cResult.ttl = cIn.ttl)

\* The length the packet's header declares: the header of its type and
\* payloadLength bytes of payload.
DeclaredLength(p) ==
  (IF p[2] = 1 THEN 22 ELSE 30) + FromBigEndian(SubSeq(p, 13, 14))

\* C4: a prefix of a valid packet that is shorter than the packet's declared
\* length is reported as truncated: no announce or message is decoded from
\* it.
C4_PrefixIsTruncated ==
  (cOrigin = "prefix" /\ cResult # NotParsed /\ WithinLimits
     /\ Len(cData) < DeclaredLength(cPacket)) =>
    cResult = Null

\* The buffer starts with the type bytes of an announce or of a message.
HasKnownTag(d) == Len(d) >= 2 /\ d[1] = 1 /\ d[2] \in {1, 4}

\* C5: a buffer whose first two bytes are neither (1,1) nor (1,4) decodes to
\* the Unknown result, null, whatever its length and the bytes that follow.
C5_UnknownTag ==
  (cResult # NotParsed /\ ~HasKnownTag(cData)) => cResult = Null

\* C5 witness: a whole packet's bytes behind other type bytes were decoded
\* to null.
C5_Witness ==
  /\ cOrigin = "retagged" /\ ~HasKnownTag(cData) /\ Len(cData) > 30
  /\ cResult = Null

\* C6: an encoder call whose name exceeds 255 bytes (or whose content
\* exceeds 65535 bytes) produces no packet.
C6_OversizeRejected ==
  (cIn.kind # "none"
     /\ (Len(TextEncode(cIn.name)) > Uint8Mod - 1
           \/ Len(TextEncode(cIn.content)) > Uint16Mod - 1)) =>
    cPacket = <<>>

\* ================================================================ the page
\* The handlers of the page and the Web Bluetooth objects they hold.  An
\* async handler runs from one await to the next without interruption; each
\* action below is one such run.  A handler's record keeps its position (pc)
\* and its locals between runs.

\* ------------------------------------------------------------------ bounds
\* Peripherals in range, each a BluetoothDevice of the page.
NumDevices == 2
\* Largest repeat count entered in numMessages.
MaxRepeat == 2

\* Calls of the page suspended at an await at the same time.
MaxInFlight == 1

\* Peers that may fail in one broadcast run before the user stops picking.
MaxFailed == 2

Devices == 1..NumDevices
\* null in currentDevice, currentServer, currentCharacteristic.
NoDevice == 0

\* Values of parseInt(numMessages): a count that is NaN or below 1 runs the
\* loop as often as 0 does.
RepeatCounts == 0..MaxRepeat

\* What characteristic.properties offers: notify or indicate, else read,
\* else neither.
PropKinds == {"notify", "read", "none"}

Buttons == {"scan", "send", "disconnect", "listen", "broadcast"}

\* Notification payloads: an announce, a message, the first 12 bytes of the
\* announce, and a packet of another type.
Payloads ==
  LET a == generateAnnouncePacket(<<1, 2, 3, 4, 5, 6, 7, 8>>, Alice, 3, 1)
      m == generateMessagePacket(<<1, 2, 3, 4, 5, 6, 7, 8>>, Alice, <<65>>, 5, 1, Uuid(52))
  IN {a, m, SubSeq(a, 1, 12), SetBytes(a, 0, <<2, 1>>)}

\* A line of the page's log, or a received packet put on display.
Logged(msg) == [msg |-> msg]

\* A run that logs no outcome.
Silent == Logged("none")

\* A mutation of NotConnectedError: the guard returns without a word.
NotConnectedError_Silent == Silent

\* The error sendMessages and startListening log when no characteristic is
\* held.
NotConnectedError == Logged("NotConnected")

\* What the senderName and message fields hold, trimmed, when a call reads
\* them with both filled in.
Inputs == {[senderName |-> Alice, message |-> <<104, 105>>],
           [senderName |-> <<66, 111, 98>>, message |-> <<63>>]}

\* The locals of a call that has read no input.
NoText == [senderName |-> <<>>, message |-> <<>>]

IdleScan == [pc |-> "idle", dev |-> NoDevice, lost |-> FALSE]
IdleSend == [pc |-> "idle", dev |-> NoDevice, lost |-> FALSE, id |-> <<>>,
             text |-> NoText, i |-> 0, n |-> 0, log |-> <<>>]
IdleListen == [pc |-> "idle", dev |-> NoDevice, lost |-> FALSE]
\* failed is not a variable of the code: it counts the peers of the run
\* that ended in the inner catch.
IdleBc == [pc |-> "idle", dev |-> NoDevice, lost |-> FALSE, id |-> <<>>,
           text |-> NoText, i |-> 0, n |-> 0, log |-> <<>>, devicesFound |-> 0,
           messagesSent |-> 0, failed |-> 0]

\* The state when index.js has run.  index.html is not part of the sources:
\* whether it starts the send, disconnect and listen buttons disabled is
\* open, the scan and broadcast buttons are enabled.
SessionInit ==
  /\ currentDevice = NoDevice
  /\ currentServer = NoDevice
  /\ currentCharacteristic = NoDevice
  /\ properties = "none"
  /\ discoveredDevices = {}
  /\ isListening = FALSE
  /\ disabled \in {f \in [Buttons -> BOOLEAN] : ~f["scan"] /\ ~f["broadcast"]}
  /\ linkUp = [d \in Devices |-> FALSE]
  /\ devListeners = {}
  /\ valueListeners = {}
  /\ notifying = {}
  /\ scan = IdleScan
  /\ send = IdleSend
  /\ listen = IdleListen
  /\ bc = IdleBc
  /\ firstId = <<>>
  /\ announced = FALSE
  /\ lastLog = Silent

\* ------------------------------------------------- Web Bluetooth, the link
\* The positions at which a call holds objects of a device's connection:
\* an operation in flight on it, or a characteristic kept across a delay;
\* rec.dev is that device.
GattWaits == {"connect", "getService", "getChar", "announceWrite", "messageWrite",
              "announceDelay", "messageDelay", "starting", "stopping", "reading"}

\* When a device's link goes down (or its server is told to disconnect) the
\* operations in flight on it are aborted and the objects of the connection
\* are invalid: promises on them reject.
MarkLost(rec, d) ==
  IF rec.pc \in GattWaits /\ rec.dev = d THEN [rec EXCEPT !.lost = TRUE] ELSE rec

\* The calls suspended at an await.
InFlight ==
  Cardinality({r \in {<<"scan", scan.pc>>, <<"send", send.pc>>,
                      <<"listen", listen.pc>>, <<"bc", bc.pc>>} : r[2] # "idle"})

\* Another call may be started and suspended.
MaySuspend == InFlight < MaxInFlight

\* The call only waits for its 500 ms timer, and the connection it wrote to
\* has ended.
TimerOnly(rec) == rec.pc \in {"announceDelay", "messageDelay"} /\ rec.lost

\* A scan may be started: as any other call, or beside a sendMessages call
\* that only waits for its timer after its connection ended (onDisconnected
\* has enabled scanBtn; the send goes on when the timer fires).
MayScan == MaySuspend \/ (InFlight <= MaxInFlight /\ TimerOnly(send))

\* An operation in flight can still succeed: its link is up and was not
\* lost since the operation was issued.
CanSucceed(rec) == ~rec.lost /\ linkUp[rec.dev]

\* A mutation of OnDisconnected: currentServer is not nulled.
OnDisconnected_KeepsServer ==
  /\ currentDevice' = NoDevice
  /\ currentCharacteristic' = NoDevice
  /\ properties' = "none"
  /\ isListening' = FALSE
  /\ disabled' = [disabled EXCEPT !["scan"] = FALSE, !["send"] = TRUE,
                                  !["disconnect"] = TRUE, !["listen"] = TRUE]
  /\ UNCHANGED currentServer

\* A mutation of OnDisconnected: isListening is not cleared.
OnDisconnected_KeepsListening ==
  /\ currentDevice' = NoDevice
  /\ currentServer' = NoDevice
  /\ currentCharacteristic' = NoDevice
  /\ properties' = "none"
  /\ disabled' = [disabled EXCEPT !["scan"] = FALSE, !["send"] = TRUE,
                                  !["disconnect"] = TRUE, !["listen"] = TRUE]
  /\ UNCHANGED isListening

\* onDisconnected(): the three handles are nulled, isListening is false and
\* the buttons are set.
OnDisconnected ==
  /\ currentDevice' = NoDevice
  /\ currentServer' = NoDevice
  /\ currentCharacteristic' = NoDevice
  /\ properties' = "none"
  /\ isListening' = FALSE
  /\ disabled' = [disabled EXCEPT !["scan"] = FALSE, !["send"] = TRUE,
                                  !["disconnect"] = TRUE, !["listen"] = TRUE]

\* The globals onDisconnected assigns.
sessionGlobals == <<currentDevice, currentServer, currentCharacteristic,
                    properties, isListening, disabled>>

\* The link of device d ends, by loss or by server.disconnect(): the
\* characteristics of that connection are invalid from now on and no event
\* reaches their listeners again.
LinkDown(d) ==
  /\ linkUp' = [linkUp EXCEPT ![d] = FALSE]
  /\ notifying' = notifying \ {d}
  /\ valueListeners' = valueListeners \ {d}
  /\ UNCHANGED devListeners

\* The link of d ends and gattserverdisconnected is fired at the device,
\* which runs onDisconnected if the device carries the listener
\* (device.addEventListener in scanForDevices, never removed).
GattDown(d) ==
  /\ LinkDown(d)
  /\ IF d \in devListeners THEN OnDisconnected ELSE UNCHANGED sessionGlobals

\* The adapter reports that the link of device d was lost.
LinkLoss ==
  /\ \E d \in Devices :
       /\ linkUp[d]
       /\ GattDown(d)
       /\ scan' = MarkLost(scan, d)
       /\ send' = MarkLost(send, d)
       /\ listen' = MarkLost(listen, d)
       /\ bc' = MarkLost(bc, d)
       /\ lastLog' = IF d \in devListeners THEN Logged("Disconnected") ELSE Silent
  /\ UNCHANGED <<discoveredDevices, historyVars, codecVars>>

\* --------------------------------------------------------- scanForDevices
\* The click on scanBtn up to the await of requestDevice.
ScanClick ==
  /\ ~disabled["scan"] /\ scan.pc = "idle" /\ MayScan
  /\ disabled' = [disabled EXCEPT !["scan"] = TRUE]
  /\ scan' = [pc |-> "requestDevice", dev |-> NoDevice, lost |-> FALSE]
  /\ lastLog' = Silent
  /\ UNCHANGED <<currentDevice, currentServer, currentCharacteristic, properties,
                 discoveredDevices, isListening, adapterVars, send, listen, bc,
                 historyVars, codecVars>>

\* The user picks a device in the chooser; device.gatt.connect() is called.
ScanPicked ==
  /\ scan.pc = "requestDevice"
  /\ \E d \in Devices : scan' = [pc |-> "connect", dev |-> d, lost |-> FALSE]
  /\ lastLog' = Silent
  /\ UNCHANGED <<pageVars, adapterVars, send, listen, bc, historyVars, codecVars>>

\* connect() resolves; getPrimaryService is called.
ScanConnected ==
  /\ scan.pc = "connect" /\ ~scan.lost
  /\ linkUp' = [linkUp EXCEPT ![scan.dev] = TRUE]
  /\ scan' = [scan EXCEPT !.pc = "getService"]
  /\ lastLog' = Silent
  /\ UNCHANGED <<pageVars, devListeners, valueListeners, notifying, send, listen,
                 bc, historyVars, codecVars>>

\* getPrimaryService resolves; getCharacteristic is called.
ScanServiceFound ==
  /\ scan.pc = "getService" /\ CanSucceed(scan)
  /\ scan' = [scan EXCEPT !.pc = "getChar"]
  /\ lastLog' = Silent
  /\ UNCHANGED <<pageVars, adapterVars, send, listen, bc, historyVars, codecVars>>

\* getCharacteristic resolves: the handles are stored, the buttons set and
\* onDisconnected is attached to the device.
ScanCharFound ==
  /\ scan.pc = "getChar" /\ CanSucceed(scan)
  /\ currentDevice' = scan.dev
  /\ currentServer' = scan.dev
  /\ currentCharacteristic' = scan.dev
  /\ properties' \in PropKinds
  /\ disabled' = [disabled EXCEPT !["send"] = FALSE, !["disconnect"] = FALSE,
                                  !["listen"] = FALSE, !["scan"] = TRUE]
  /\ devListeners' = devListeners \cup {scan.dev}
  /\ scan' = IdleScan
  /\ announced' = FALSE
  /\ lastLog' = Logged("Connected")
  /\ UNCHANGED <<discoveredDevices, isListening, linkUp, valueListeners, notifying,
                 send, listen, bc, firstId, codecVars>>

\* requestDevice is cancelled, or connect, getPrimaryService or
\* getCharacteristic rejects: the catch enables scanBtn again.
ScanFailed ==
  /\ scan.pc \in {"requestDevice", "connect", "getService", "getChar"}
  /\ disabled' = [disabled EXCEPT !["scan"] = FALSE]
  /\ scan' = IdleScan
  /\ lastLog' = Logged("ScanFailed")
  /\ UNCHANGED <<currentDevice, currentServer, currentCharacteristic, properties,
                 discoveredDevices, isListening, adapterVars, send, listen, bc,
                 historyVars, codecVars>>

\* ------------------------------------------------------------- disconnect
\* The click on disconnectBtn. With a server held, currentServer.disconnect()
\* ends the link at once and fires the event before it returns, and the
\* operations in flight on the device are aborted; the await of its result
\* admits no other task, and onDisconnected() follows in any case.
disconnect ==
  /\ ~disabled["disconnect"]
  /\ IF currentServer # NoDevice /\ linkUp[currentServer]
       THEN LinkDown(currentServer)
       ELSE UNCHANGED adapterVars
  /\ OnDisconnected
  /\ scan' = MarkLost(scan, currentServer)
  /\ send' = MarkLost(send, currentServer)
  /\ listen' = MarkLost(listen, currentServer)
  /\ bc' = MarkLost(bc, currentServer)
  /\ lastLog' = IF currentServer # NoDevice THEN Logged("DisconnectedOnRequest")
                ELSE Logged("Disconnected")
  /\ UNCHANGED <<discoveredDevices, historyVars, codecVars>>

\* ----------------------------------------------------------- sendMessages
\* What a write hands to the adapter: the kind of packet, the senderId,
\* ttl, name and content it was generated with (an announce has no
\* content), and the characteristic written.
Written(kind, id, ttl, text, d) ==
  [kind |-> kind, senderId |-> id, ttl |-> ttl, senderName |-> text.senderName,
   content |-> IF kind = "message" THEN text.message ELSE <<>>, to |-> d]

\* generateSenderId(): eight random bytes.
generateSenderId == SenderIds

\* The senderId of the first packet the page wrote, once id is written.
FirstWritten(id) == IF firstId = <<>> THEN id ELSE firstId

\* The first write of a call: the announce, ttl 3.
AnnounceWrite(id, text, d) == Written("announce", id, 3, text, d)

\* The writes of the loop: a message, ttl 5.
MessageWrite(id, text, d) == Written("message", id, 5, text, d)

\* A mutation of MessagesLeft: the loop runs once more.
MessagesLeft_OneMore(i, numMessages) == i <= numMessages

\* The condition of the for loop.
MessagesLeft(i, numMessages) == i < numMessages

\* The click on sendBtn up to the first await. Without a characteristic the
\* error is logged and the function returns; with an empty name or message
\* likewise; otherwise sendBtn is disabled, a senderId is generated and the
\* announce is written.
SendClick ==
  /\ ~disabled["send"] /\ send.pc = "idle"
  /\ \/ /\ currentCharacteristic = NoDevice
        /\ send' = IdleSend
        /\ lastLog' = NotConnectedError
        /\ UNCHANGED <<disabled, historyVars>>
     \/ /\ currentCharacteristic # NoDevice
        /\ send' = IdleSend
        /\ lastLog' = Logged("MissingInput")
        /\ UNCHANGED <<disabled, historyVars>>
     \/ /\ currentCharacteristic # NoDevice /\ MaySuspend
        /\ \E id \in generateSenderId, n \in RepeatCounts, text \in Inputs :
             /\ send' = [pc |-> "announceWrite", dev |-> currentCharacteristic,
                         lost |-> FALSE, id |-> id, text |-> text, i |-> 0, n |-> n,
                         log |-> <<AnnounceWrite(id, text, currentCharacteristic)>>]
             /\ firstId' = FirstWritten(id)
        /\ disabled' = [disabled EXCEPT !["send"] = TRUE]
        /\ announced' = TRUE
        /\ lastLog' = Silent
  /\ UNCHANGED <<currentDevice, currentServer, currentCharacteristic, properties,
                 discoveredDevices, isListening, adapterVars, scan, listen, bc,
                 codecVars>>

\* A write resolves; the 500 ms delay starts.
SendWritten ==
  /\ send.pc \in {"announceWrite", "messageWrite"} /\ CanSucceed(send)
  /\ send' = [send EXCEPT !.pc = IF send.pc = "announceWrite" THEN "announceDelay"
                                 ELSE "messageDelay"]
  /\ lastLog' = Silent
  /\ UNCHANGED <<pageVars, adapterVars, scan, listen, bc, historyVars, codecVars>>

\* A delay is over. With messages left the next one (ttl 5) is written to
\* the characteristic the global holds now, which throws when it is null;
\* with none left success is logged. catch and finally enable sendBtn.
SendDelayDone ==
  /\ send.pc \in {"announceDelay", "messageDelay"}
  /\ LET next == IF send.pc = "messageDelay" THEN send.i + 1 ELSE 0 IN
       IF MessagesLeft(next, send.n)
         THEN IF currentCharacteristic = NoDevice
                THEN /\ send' = IdleSend
                     /\ lastLog' = Logged("SendFailed")
                     /\ disabled' = [disabled EXCEPT !["send"] = FALSE]
                ELSE /\ send' = [send EXCEPT
                           !.pc = "messageWrite", !.dev = currentCharacteristic,
                           !.lost = FALSE, !.i = next,
                           !.log = Append(@, MessageWrite(send.id, send.text,
                                                          currentCharacteristic))]
                     /\ lastLog' = Silent
                     /\ UNCHANGED disabled
         ELSE /\ send' = IdleSend
              /\ lastLog' = [msg |-> "Sent", numMessages |-> send.n]
              /\ disabled' = [disabled EXCEPT !["send"] = FALSE]
  /\ UNCHANGED <<currentDevice, currentServer, currentCharacteristic, properties,
                 discoveredDevices, isListening, adapterVars, scan, listen, bc,
                 historyVars, codecVars>>

\* A write rejects: the catch logs the failure, finally enables sendBtn.
SendFailed ==
  /\ send.pc \in {"announceWrite", "messageWrite"}
  /\ send' = IdleSend
  /\ lastLog' = Logged("SendFailed")
  /\ disabled' = [disabled EXCEPT !["send"] = FALSE]
  /\ UNCHANGED <<currentDevice, currentServer, currentCharacteristic, properties,
                 discoveredDevices, isListening, adapterVars, scan, listen, bc,
                 historyVars, codecVars>>

\* --------------------------------------------------------- startListening
\* A mutation of CanNotify: read is taken for a way to be notified.
CanNotify_OrRead(p) == p \in {"notify", "read"}

\* properties.notify || properties.indicate
CanNotify(p) == p = "notify"

\* properties.read, asked when the characteristic cannot notify.
CanRead(p) == p = "read"

\* The click on listenBtn up to the first await. Without a characteristic
\* the error is logged and the function returns. Not listening: a
\* characteristic with notify or indicate starts notifications, one with
\* read only is read once, one with neither logs an error. Listening:
\* notifications are stopped if the characteristic has notify or indicate,
\* and isListening is cleared at once if it has not.
ListenClick ==
  /\ ~disabled["listen"] /\ listen.pc = "idle"
  /\ LET await(pc) == /\ MaySuspend
                      /\ listen' = [pc |-> pc, dev |-> currentCharacteristic,
                                    lost |-> FALSE]
                      /\ lastLog' = Silent
                      /\ UNCHANGED isListening
         return(error) == /\ listen' = IdleListen
                          /\ lastLog' = error
                          /\ UNCHANGED isListening
     IN IF currentCharacteristic = NoDevice THEN return(NotConnectedError)
        ELSE IF isListening
          THEN IF CanNotify(properties) THEN await("stopping")
               ELSE /\ isListening' = FALSE
                    /\ listen' = IdleListen
                    /\ lastLog' = Logged("Stopped")
        ELSE IF CanNotify(properties) THEN await("starting")
        ELSE IF CanRead(properties) THEN await("reading")
        ELSE return(Logged("NotSupported"))
  /\ UNCHANGED <<currentDevice, currentServer, currentCharacteristic, properties,
                 discoveredDevices, disabled, adapterVars, scan, send, bc,
                 historyVars, codecVars>>

\* startNotifications resolves: the listener is added to the characteristic
\* the global holds now (a throw when it is null) and isListening is set.
ListenStarted ==
  /\ listen.pc = "starting" /\ CanSucceed(listen)
  /\ notifying' = notifying \cup {listen.dev}
  /\ IF currentCharacteristic = NoDevice
       THEN /\ lastLog' = Logged("ListenFailed")
            /\ UNCHANGED <<valueListeners, isListening>>
       ELSE /\ valueListeners' = valueListeners \cup {currentCharacteristic}
            /\ isListening' = TRUE
            /\ lastLog' = Logged("Listening")
  /\ listen' = IdleListen
  /\ UNCHANGED <<currentDevice, currentServer, currentCharacteristic, properties,
                 discoveredDevices, disabled, linkUp, devListeners, scan, send, bc,
                 historyVars, codecVars>>

\* stopNotifications resolves: the listener is removed from the
\* characteristic the global holds now and isListening is cleared.
ListenStopped ==
  /\ listen.pc = "stopping" /\ CanSucceed(listen)
  /\ notifying' = notifying \ {listen.dev}
  /\ IF currentCharacteristic = NoDevice
       THEN /\ lastLog' = Logged("ListenFailed")
            /\ UNCHANGED <<valueListeners, isListening>>
       ELSE /\ valueListeners' = valueListeners \ {currentCharacteristic}
            /\ isListening' = FALSE
            /\ lastLog' = Logged("Stopped")
  /\ listen' = IdleListen
  /\ UNCHANGED <<currentDevice, currentServer, currentCharacteristic, properties,
                 discoveredDevices, disabled, linkUp, devListeners, scan, send, bc,
                 historyVars, codecVars>>

\* readValue resolves: the value is parsed and shown, once.
ListenRead ==
  /\ listen.pc = "reading" /\ CanSucceed(listen)
  /\ listen' = IdleListen
  /\ lastLog' = Logged("Read")
  /\ UNCHANGED <<pageVars, adapterVars, scan, send, bc, historyVars, codecVars>>

\* startNotifications, stopNotifications or readValue rejects: the catch
\* logs the failure.
ListenFailed ==
  /\ listen.pc \in {"starting", "stopping", "reading"}
  /\ listen' = IdleListen
  /\ lastLog' = Logged("ListenFailed")
  /\ UNCHANGED <<pageVars, adapterVars, scan, send, bc, historyVars, codecVars>>

\* A notification whose value parseReceivedPacket returned null for:
\* nothing is logged on the page and nothing is shown.
Dropped == [msg |-> "none", message |-> "null"]

\* A mutation of handleCharacteristicValueChanged: the result is shown
\* without the test for null.
handleCharacteristicValueChanged_ShowsNull(value) ==
  [msg |-> "Received", type |-> parseReceivedPacket(value).type]

\* handleCharacteristicValueChanged(event): the value is parsed and, unless
\* the result is null, logged and shown.
handleCharacteristicValueChanged(value) ==
  LET message == parseReceivedPacket(value) IN
    IF message = Null THEN Dropped ELSE [msg |-> "Received", type |-> message.type]

\* What the payloads make the page show.
Shown == {handleCharacteristicValueChanged(value) : value \in Payloads}

\* A notification of a characteristic that is notifying and carries
\* handleCharacteristicValueChanged.
Notify ==
  /\ \E d \in valueListeners \cap notifying :
       /\ linkUp[d]
       /\ lastLog' \in Shown
  /\ UNCHANGED <<pageVars, adapterVars, callVars, historyVars, codecVars>>

\* --------------------------------------------------------- broadcastToAll
\* The click on broadcastBtn up to the first requestDevice. With an empty
\* name or message the error is logged and finally leaves the button
\* enabled; otherwise the button is disabled, one senderId is generated for
\* the run and both counters start at 0.
BroadcastClick ==
  /\ ~disabled["broadcast"] /\ bc.pc = "idle"
  /\ \/ /\ bc' = IdleBc
        /\ lastLog' = Logged("MissingInput")
        /\ UNCHANGED disabled
     \/ /\ MaySuspend
        /\ \E id \in generateSenderId, n \in RepeatCounts, text \in Inputs :
             bc' = [IdleBc EXCEPT !.pc = "requestDevice", !.id = id, !.n = n,
                                  !.text = text]
        /\ disabled' = [disabled EXCEPT !["broadcast"] = TRUE]
        /\ lastLog' = Silent
  /\ UNCHANGED <<currentDevice, currentServer, currentCharacteristic, properties,
                 discoveredDevices, isListening, adapterVars, scan, send, listen,
                 historyVars, codecVars>>

\* A mutation of AlreadySent: no device is ever found in the list.
AlreadySent_Never(d) == FALSE

\* discoveredDevices.find((d) => d.id === device.id)
AlreadySent(d) == d \in discoveredDevices

\* The user picks a device in the chooser: one already in discoveredDevices
\* is skipped and the chooser shown again, another is connected to.
BcPicked ==
  /\ bc.pc = "requestDevice" /\ bc.failed < MaxFailed
  /\ \E d \in Devices :
       IF AlreadySent(d)
         THEN bc' = bc /\ lastLog' = Logged("AlreadySent")
         ELSE /\ bc' = [bc EXCEPT !.pc = "connect", !.dev = d, !.lost = FALSE]
              /\ lastLog' = Silent
  /\ UNCHANGED <<pageVars, adapterVars, scan, send, listen, historyVars, codecVars>>

\* A mutation of AfterCancel: continueBroadcast stays true and the chooser
\* is shown again.
AfterCancel_LoopsOn == "requestDevice"

\* Where the run goes on after the outer catch: both of its branches set
\* continueBroadcast to false and the while loop ends.
AfterCancel == "idle"

\* requestDevice rejects (the user cancels, or any other error): the loop
\* ends, the counters are reported, discoveredDevices is emptied and finally
\* enables broadcastBtn.
BcCancelled ==
  /\ bc.pc = "requestDevice"
  /\ bc' = [IdleBc EXCEPT !.pc = AfterCancel]
  /\ lastLog' = [msg |-> "BroadcastDone", devicesFound |-> bc.devicesFound,
                 messagesSent |-> bc.messagesSent]
  /\ discoveredDevices' = {}
  /\ disabled' = [disabled EXCEPT !["broadcast"] = FALSE]
  /\ UNCHANGED <<currentDevice, currentServer, currentCharacteristic, properties,
                 isListening, adapterVars, scan, send, listen, historyVars,
                 codecVars>>

\* connect() resolves; getPrimaryService is called.
BcConnected ==
  /\ bc.pc = "connect" /\ ~bc.lost
  /\ linkUp' = [linkUp EXCEPT ![bc.dev] = TRUE]
  /\ bc' = [bc EXCEPT !.pc = "getService"]
  /\ lastLog' = Silent
  /\ UNCHANGED <<pageVars, devListeners, valueListeners, notifying, scan, send,
                 listen, historyVars, codecVars>>

\* getPrimaryService resolves; getCharacteristic is called.
BcServiceFound ==
  /\ bc.pc = "getService" /\ CanSucceed(bc)
  /\ bc' = [bc EXCEPT !.pc = "getChar"]
  /\ lastLog' = Silent
  /\ UNCHANGED <<pageVars, adapterVars, scan, send, listen, historyVars, codecVars>>

\* getCharacteristic resolves; the announce is written with the run's
\* senderId.
BcCharFound ==
  /\ bc.pc = "getChar" /\ CanSucceed(bc)
  /\ bc' = [bc EXCEPT !.pc = "announceWrite", !.i = 0,
                       !.log = <<AnnounceWrite(bc.id, bc.text, bc.dev)>>]
  /\ firstId' = FirstWritten(bc.id)
  /\ lastLog' = Silent
  /\ UNCHANGED <<pageVars, adapterVars, scan, send, listen, announced, codecVars>>

\* A write resolves; the 500 ms delay starts.
BcWritten ==
  /\ bc.pc \in {"announceWrite", "messageWrite"} /\ CanSucceed(bc)
  /\ bc' = [bc EXCEPT !.pc = IF bc.pc = "announceWrite" THEN "announceDelay"
                             ELSE "messageDelay"]
  /\ lastLog' = Silent
  /\ UNCHANGED <<pageVars, adapterVars, scan, send, listen, historyVars, codecVars>>

\* A delay is over. With messages left the next one is written to the
\* characteristic of this device; with none left the counters are raised,
\* the device is pushed on discoveredDevices, server.disconnect() ends the
\* link (firing the event at the device) and the chooser is shown again.
BcDelayDone ==
  /\ bc.pc \in {"announceDelay", "messageDelay"}
  /\ LET next == IF bc.pc = "messageDelay" THEN bc.i + 1 ELSE 0 IN
       IF MessagesLeft(next, bc.n)
         THEN /\ bc' = [bc EXCEPT !.pc = "messageWrite", !.i = next,
                         !.log = Append(@, MessageWrite(bc.id, bc.text, bc.dev))]
              /\ lastLog' = Silent
              /\ UNCHANGED <<pageVars, adapterVars, scan, send, listen>>
         ELSE /\ bc' = [bc EXCEPT !.pc = "requestDevice", !.dev = NoDevice,
                                  !.lost = FALSE, !.i = 0, !.log = <<>>,
                                  !.messagesSent = @ + bc.n,
                                  !.devicesFound = @ + 1]
              /\ lastLog' = Logged("PeerSent")
              /\ discoveredDevices' = discoveredDevices \cup {bc.dev}
              /\ IF linkUp[bc.dev] THEN GattDown(bc.dev)
                 ELSE UNCHANGED <<adapterVars, sessionGlobals>>
              /\ scan' = MarkLost(scan, bc.dev)
              /\ send' = MarkLost(send, bc.dev)
              /\ listen' = MarkLost(listen, bc.dev)
  /\ UNCHANGED <<historyVars, codecVars>>

\* A mutation of AfterPeerFailure: the failure of a peer ends the loop.
AfterPeerFailure_EndsRun == "idle"

\* Where the run goes on after the inner catch: the while loop asks for the
\* next device.
AfterPeerFailure == "requestDevice"

\* connect, getPrimaryService, getCharacteristic or a write rejects: the
\* inner catch logs the failure and the chooser is shown again.
BcPeerFailed ==
  /\ bc.pc \in {"connect", "getService", "getChar", "announceWrite", "messageWrite"}
  /\ bc' = [bc EXCEPT !.pc = AfterPeerFailure, !.dev = NoDevice, !.lost = FALSE,
                       !.i = 0, !.log = <<>>, !.failed = @ + 1]
  /\ lastLog' = Logged("PeerFailed")
  /\ UNCHANGED <<pageVars, adapterVars, scan, send, listen, historyVars, codecVars>>

\* ------------------------------------------------------------ the program
SessionNext ==
  \/ LinkLoss
  \/ ScanClick \/ ScanPicked \/ ScanConnected \/ ScanServiceFound
  \/ ScanCharFound \/ ScanFailed
  \/ disconnect
  \/ SendClick \/ SendWritten \/ SendDelayDone \/ SendFailed
  \/ ListenClick \/ ListenStarted \/ ListenStopped \/ ListenRead \/ ListenFailed
  \/ Notify
  \/ BroadcastClick \/ BcPicked \/ BcCancelled \/ BcConnected \/ BcServiceFound
  \/ BcCharFound \/ BcWritten \/ BcDelayDone \/ BcPeerFailed

\* The page as loaded, its codec at rest.
Init == CodecAtRest /\ SessionInit

Spec == Init /\ [][SessionNext]_vars

\* The steps by which the operation broadcastToAll awaits (connect,
\* getPrimaryService, getCharacteristic, a write, a 500 ms delay) completes
\* or fails.
BcOperationEnds ==
  \/ BcConnected \/ BcServiceFound \/ BcCharFound \/ BcWritten \/ BcDelayDone
  \/ BcPeerFailed

\* The handlers that touch what a broadcast run uses: the run itself, and
\* the scan, the disconnect and the link losses that open and end links
\* beside it. sendMessages and startListening assign nothing the run reads.
BroadcastNext ==
  \/ LinkLoss
  \/ ScanClick \/ ScanPicked \/ ScanConnected \/ ScanServiceFound
  \/ ScanCharFound \/ ScanFailed
  \/ disconnect
  \/ BroadcastClick \/ BcPicked \/ BcCancelled \/ BcConnected \/ BcServiceFound
  \/ BcCharFound \/ BcWritten \/ BcDelayDone \/ BcPeerFailed

\* The page as loaded, before a broadcast run.
FairInit == CodecAtRest /\ SessionInit

\* Broadcast runs where every operation a run awaits completes or fails in
\* the end, and the user, shown the chooser again and again, cancels it in
\* the end.
SpecFair ==
  /\ FairInit /\ [][BroadcastNext]_vars
  /\ WF_vars(BcOperationEnds)
  /\ SF_vars(BcCancelled)

\* The codec on its own, the page as loaded with nothing connected.
CodecInit ==
  /\ CodecAtRest
  /\ SessionInit
  /\ disabled = [b \in Buttons |-> b \in {"send", "disconnect", "listen"}]

SpecCodec == CodecInit /\ [][CodecNext]_vars

\* ------------------------------------------------------ session properties
\* The positions at which broadcastToAll has written packets to its peer.
BcWriting == {"announceWrite", "announceDelay", "messageWrite", "messageDelay"}

\* C7: every announce and message packet written by any sendMessages call
\* or broadcastToAll run since the page loaded carries one and the same
\* senderId, that of the first packet written.
C7_OneSenderId ==
  /\ \A k \in 1..Len(send.log) : send.log[k].senderId = firstId
  /\ bc.pc \in BcWriting => bc.id = firstId

\* C8: over the sendMessages calls on one connection only the first writes
\* an announce packet: once one was written on the current connection, no
\* call that starts writes another.
C8_AnnounceOnce ==
  [][(announced /\ send.pc = "idle") => send'.pc # "announceWrite"]_vars

\* The session was connected (a scan has completed) and holds no
\* characteristic now.
WasDisconnected == devListeners # {} /\ currentCharacteristic = NoDevice

\* C9: a sendMessages or startListening call made when the session, once
\* connected, holds no connection logs the not-connected error and returns:
\* no operation is issued to the adapter, the call is not left in flight
\* (the calls in flight are those of before) and the globals are as before.
C9_NotConnected ==
  [][(WasDisconnected /\ (SendClick \/ ListenClick))
       => /\ lastLog' = Logged("NotConnected")
          /\ UNCHANGED <<pageVars, adapterVars, callVars, historyVars>>]_vars

\* A sendMessages call has just failed that way: the session was connected,
\* sendBtn was enabled again by the finally of a call the disconnect had
\* interrupted, and the click met the guard.
C9_Witness ==
  /\ WasDisconnected
  /\ lastLog = Logged("NotConnected")
  /\ ~disabled["send"]
  /\ send.pc = "idle"

\* The characteristics whose notifications still reach
\* handleCharacteristicValueChanged.
LiveSubscriptions == {d \in valueListeners \cap notifying : linkUp[d]}

\* A disconnect request (the click) or a gattserverdisconnected event (the
\* link of a device that carries the listener ends) arrives.
DisconnectArrives ==
  \/ disconnect
  \/ \E d \in devListeners : linkUp[d] /\ ~linkUp'[d]

\* C10: when a disconnect request or a gattserverdisconnected event arrives
\* while the session is connected, the three handles are null, isListening
\* is false and no subscription is left that dispatches notifications.
C10_DisconnectReleases ==
  [][(currentCharacteristic # NoDevice /\ DisconnectArrives)
       => /\ currentDevice' = NoDevice
          /\ currentServer' = NoDevice
          /\ currentCharacteristic' = NoDevice
          /\ ~isListening'
          /\ LiveSubscriptions' = {}]_vars

\* The writes a peer or a connection gets from one complete send: the
\* announce, then n messages, all with one senderId, name and content.
FullSend(id, text, d, n) ==
  <<AnnounceWrite(id, text, d)>> \o [k \in 1..n |-> MessageWrite(id, text, d)]

\* The step of broadcastToAll that counts a peer as sent.
PeerSent == BcDelayDone /\ bc'.devicesFound = bc.devicesFound + 1

\* C11: the failure of one peer of a broadcast run does not end the run:
\* the next device is asked for with the run's senderId, inputs, counters
\* and list as they were; and every peer counted as sent, after a failure
\* as before one, was written the announce and all N messages.
C11_PeerFailureGoesOn ==
  [][/\ BcPeerFailed =>
          /\ bc'.pc = "requestDevice"
          /\ bc'.id = bc.id /\ bc'.text = bc.text /\ bc'.n = bc.n
          /\ bc'.devicesFound = bc.devicesFound
          /\ bc'.messagesSent = bc.messagesSent
          /\ UNCHANGED <<discoveredDevices, disabled>>
     /\ PeerSent => bc.log = FullSend(bc.id, bc.text, bc.dev, bc.n)]_vars

\* Two peers have been sent in a run in which another one failed, the
\* last of them just now, each with the announce and a message.
C11_Witness ==
  /\ lastLog = Logged("PeerSent")
  /\ bc.pc = "requestDevice"
  /\ bc.failed = 1
  /\ bc.devicesFound = 2
  /\ bc.n = 1

\* C12: the report at the end of a broadcast run carries both counts: the
\* peers fully sent and the peers that failed.
C12_ReportsBothCounts ==
  [][BcCancelled =>
       /\ lastLog'.devicesFound = Cardinality(discoveredDevices)
       /\ "failed" \in DOMAIN lastLog'
       /\ lastLog'.failed = bc.failed]_vars

\* The positions at which broadcastToAll holds a connection to bc.dev or
\* is opening one.
BcServing == {"connect", "getService", "getChar"} \cup BcWriting

\* C13: within a broadcast run no connection is opened and no write issued
\* to a device that the run has already sent to.
C13_NoPeerTwice == bc.pc \in BcServing => bc.dev \notin discoveredDevices

\* A device already sent to has just been picked again and skipped.
C13_Witness ==
  /\ lastLog = Logged("AlreadySent")
  /\ bc.pc = "requestDevice"
  /\ discoveredDevices # {}

\* A write without its target.
Untargeted(w) == [w EXCEPT !.to = NoDevice]

\* C14: a sendMessages call with repeat count N that logs success has
\* issued exactly N+1 writes, each to the characteristic the session held:
\* the announce first, then N messages with the same senderId, name and
\* content; a write that resolves is followed by the delay, and the next
\* write is issued only when a delay is over.
C14_SendWritesInOrder ==
  [][/\ (SendDelayDone /\ lastLog'.msg = "Sent") =>
          /\ lastLog'.numMessages = send.n
          /\ Len(send.log) = send.n + 1
          /\ [k \in 1..Len(send.log) |-> Untargeted(send.log[k])]
               = FullSend(send.id, send.text, NoDevice, send.n)
          /\ \A k \in 1..Len(send.log) : send.log[k].to # NoDevice
     /\ (send.pc \in {"announceWrite", "messageWrite"} /\ send'.pc # send.pc) =>
          send'.pc \in {"announceDelay", "messageDelay", "idle"}
     /\ (send.pc # "idle" /\ Len(send'.log) > Len(send.log)) =>
          send.pc \in {"announceDelay", "messageDelay"}]_vars

\* A call with the largest repeat count has just logged its success.
C14_Witness ==
  /\ lastLog = [msg |-> "Sent", numMessages |-> MaxRepeat]
  /\ send.pc = "idle"
  /\ ~disabled["send"]

\* The three handles of the session.
handles == <<currentDevice, currentServer, currentCharacteristic>>

\* C15: startListening on a connected session that is not listening starts
\* notifications only on a characteristic with notify or indicate, and
\* isListening becomes true only when that start resolves; on a
\* characteristic with read only it issues one read, and on one with
\* neither it logs the not-supported error and issues nothing; in both
\* cases the session keeps its handles and isListening stays false.
C15_ListenByCapability ==
  [][/\ (ListenClick /\ currentCharacteristic # NoDevice /\ ~isListening) =>
          /\ UNCHANGED <<handles, isListening, adapterVars>>
          /\ properties = "notify" => listen'.pc = "starting"
          /\ properties = "read" => listen'.pc = "reading"
          /\ properties = "none" =>
               listen'.pc = "idle" /\ lastLog' = Logged("NotSupported")
     /\ (listen.pc = "idle" /\ listen'.pc = "starting") => properties = "notify"
     /\ (~isListening /\ isListening') => (listen.pc = "starting" /\ ListenStarted)
     /\ (listen.pc = "reading" /\ listen'.pc # "reading") =>
          /\ listen'.pc = "idle"
          /\ lastLog' \in {Logged("Read"), Logged("ListenFailed")}
          /\ UNCHANGED <<handles, isListening, adapterVars>>]_vars

\* The one read of a characteristic with read only has just resolved: the
\* session is connected as before and not listening.
C15_Witness ==
  /\ lastLog = Logged("Read")
  /\ properties = "read"
  /\ currentCharacteristic # NoDevice
  /\ ~isListening
  /\ listen.pc = "idle"

\* The payloads that parseReceivedPacket returns null for.
Undecodable == {value \in Payloads : parseReceivedPacket(value) = Null}

\* C16: a notification whose payload does not decode, or is of an unknown
\* type, is dropped and changes nothing else: the handles, isListening, the
\* listeners and the notifying characteristics are as before, so that the
\* subscription delivers the next notification as it did this one; only
\* announces and messages are shown.
C16_BadPayloadDropped ==
  [][Notify =>
       /\ UNCHANGED <<pageVars, adapterVars, callVars>>
       /\ lastLog' # Dropped =>
            lastLog'.msg = "Received" /\ lastLog'.type \in {"announce", "message"}]_vars

\* A notification has just been dropped while listening, and the
\* subscription that delivered it is live.
C16_Witness ==
  /\ lastLog = Dropped
  /\ Undecodable # {}
  /\ isListening
  /\ currentCharacteristic \in valueListeners \cap notifying
  /\ linkUp[currentCharacteristic]

\* An operation that sendMessages or startListening issued on the
\* connection the session holds has not completed; for sendMessages this
\* includes the delays between its writes.
SendPending ==
  send.pc # "idle" /\ send.dev = currentCharacteristic /\ ~send.lost

ListenPending ==
  listen.pc # "idle" /\ listen.dev = currentCharacteristic /\ ~listen.lost

\* C17: while an operation of one call on the session's connection is
\* pending, no other call issues an operation on that connection: no
\* disconnect, no start, stop or read by startListening, no write by a new
\* sendMessages call.
C17_Serialized ==
  [][currentCharacteristic # NoDevice =>
       /\ SendPending => ~(disconnect \/ (ListenClick /\ listen'.pc # "idle"))
       /\ ListenPending => ~(disconnect \/ (SendClick /\ send'.pc # "idle"))]_vars

\* A step in which a call ends in its catch.
CallFails ==
  \/ ScanFailed
  \/ SendFailed
  \/ SendDelayDone /\ lastLog' = Logged("SendFailed")
  \/ ListenFailed
  \/ (ListenStarted \/ ListenStopped) /\ lastLog' = Logged("ListenFailed")

\* C18: a call of scanForDevices, sendMessages or startListening that ends
\* in an adapter error logs the error and leaves the session disconnected:
\* the three handles null and isListening false.
C18_ErrorDisconnects ==
  [][CallFails =>
       /\ lastLog'.msg \in {"ScanFailed", "SendFailed", "ListenFailed"}
       /\ currentDevice' = NoDevice
       /\ currentServer' = NoDevice
       /\ currentCharacteristic' = NoDevice
       /\ ~isListening']_vars

\* The devices whose GATT link is up.
LiveLinks == {d \in Devices : linkUp[d]}

\* C19: at every moment at most one GATT link opened by the page is up.
C19_OneLink == Cardinality(LiveLinks) <= 1

\* C20: when scanForDevices fails, at whatever step, no handle is stored,
\* scanBtn is enabled again and the link the attempt had opened is not
\* left connected.
C20_FailedScanCleansUp ==
  [][ScanFailed =>
       /\ currentDevice' = NoDevice
       /\ currentServer' = NoDevice
       /\ currentCharacteristic' = NoDevice
       /\ ~disabled'["scan"]
       /\ scan.pc \in {"getService", "getChar"} => ~linkUp'[scan.dev]]_vars

\* The broadcast run is under way: it shows the chooser or serves a peer.
BcRunning == bc.pc # "idle"

\* C21: when requestDevice is cancelled or fails the run ends at once: no
\* further peer is requested, connected or written to, the list of the run
\* is emptied and broadcastBtn is enabled again; and when every awaited
\* operation ends and the user cancels in the end, a run under way ends.
C21_CancelEndsRun ==
  /\ [][BcCancelled => /\ ~BcRunning'
                       /\ bc'.dev = NoDevice
                       /\ discoveredDevices' = {}
                       /\ ~disabled'["broadcast"]
                       /\ UNCHANGED adapterVars]_vars
  /\ BcRunning ~> ~BcRunning

\* A run that sent to a peer has just been ended by the cancelled chooser.
C21_Witness ==
  /\ lastLog.msg = "BroadcastDone"
  /\ lastLog.devicesFound > 0
  /\ ~BcRunning
  /\ ~disabled["broadcast"]
\* The packet's length fields hold the lengths of its fields: the name of a
\* message fits the one byte of its length, the content the two bytes of
\* its length, the name of an announce the two bytes of payloadLength.
LengthsFit ==
  /\ Len(cIn.senderId) = 8
  /\ Len(TextEncode(cIn.name)) <
       (IF cIn.kind = "message" THEN Uint8Mod ELSE Uint16Mod)
  /\ Len(TextEncode(cIn.content)) < Uint16Mod

\* The encoder's packet was handed to the decoder in a larger buffer, with
\* bytes behind it, and decoded.
DecodedExtended == cOrigin = "extended" /\ cResult # NotParsed

\* C22: the bytes that follow a valid announce or message packet in the
\* buffer are ignored: the buffer decodes to what the packet alone decodes
\* to, which is an announce or a message.
C22_TrailingIgnored ==
  (DecodedExtended /\ LengthsFit) =>
    /\ cResult = parseReceivedPacket(cPacket)
    /\ cResult.type = cIn.kind

\* C22 witness: a message packet followed by two 0xff bytes was decoded to
\* the message of the packet.
C22_Witness ==
  /\ DecodedExtended /\ LengthsFit
  /\ cIn.kind = "message" /\ cIn.content = <<233>>
  /\ cData = cPacket \o <<255, 255>>
  /\ cResult.type = "message" /\ cResult.content = cIn.content

\* The bytes generateAnnouncePacket writes: the 22 bytes of the header and
\* the bytes of the name.
AnnounceWritten(senderId, senderName, ttl, timestamp) ==
  <<1, 1, ttl % Uint8Mod>> \o BigEndian(timestamp, 8) \o <<0>>
    \o BigEndian(Len(TextEncode(senderName)) % Uint16Mod, 2) \o senderId
    \o TextEncode(senderName)

\* C23: an announce packet is the 22 header bytes and the name bytes the
\* encoder writes, followed by one byte more, which is zero: 23 bytes and
\* the name in all; and the packet without that byte decodes to what the
\* packet decodes to.
C23_AnnouncePadding ==
  (cIn.kind = "announce" /\ Len(cIn.senderId) = 8) =>
    /\ Len(cPacket) = 23 + Len(TextEncode(cIn.name))
    /\ cPacket = AnnounceWritten(cIn.senderId, cIn.name, cIn.ttl, cIn.timestamp)
                   \o <<0>>
    /\ (cOrigin = "prefix" /\ Len(cData) = Len(cPacket) - 1
          /\ cResult # NotParsed) =>
         /\ cResult = parseReceivedPacket(cPacket)
         /\ cResult.type = "announce"

\* C23 witness: the announce of "Alice", 28 bytes, was handed to the decoder
\* without its last byte and decoded to the announce of "Alice".
C23_Witness ==
  /\ cIn.kind = "announce" /\ cIn.name = Alice
  /\ Len(cPacket) = 28 /\ cPacket[28] = 0
  /\ cOrigin = "prefix" /\ cData = SubSeq(cPacket, 1, 27)
  /\ cResult.type = "announce" /\ cResult.senderName = Alice
\* The cycle of one peer ends, in the inner catch after connect() had
\* resolved, or after the last message.
PeerCycleEnds == (BcPeerFailed /\ bc.pc # "connect") \/ PeerSent

\* C24: when the cycle of a peer ends, by success or by failure, the link
\* of that peer is disconnected before the chooser is shown for the next.
C24_PeerLinkClosed ==
  [][PeerCycleEnds => ~linkUp'[bc.dev]]_vars
\* C25: every packet a sendMessages call writes goes to the connection that
\* was current when the call started: a call whose connection has ended
\* writes no further packet, whatever connection the session holds by then.
C25_NoStaleWrite ==
  [][(SendDelayDone /\ send.lost) => send'.pc # "messageWrite"]_vars
\* C26: the three handles are all null, or all set and of one connection:
\* device, server and characteristic of the same device.
C26_HandlesTogether ==
  \/ handles = <<NoDevice, NoDevice, NoDevice>>
  \/ /\ currentDevice # NoDevice
     /\ currentServer = currentDevice
     /\ currentCharacteristic = currentDevice

\* C26 witness: the session holds the three handles of the second device
\* after it had held those of the first, with a broadcast run under way.
C26_Witness ==
  /\ handles = <<2, 2, 2>>
  /\ devListeners = {1, 2}
  /\ bc.pc = "requestDevice"

\* C27: isListening is true only while a characteristic is held.
C27_ListeningHoldsChar == isListening => currentCharacteristic # NoDevice

\* C27 witness: the page is listening and startListening is suspended in
\* stopNotifications on the characteristic it holds, whose link may end now.
C27_Witness ==
  /\ isListening
  /\ listen.pc = "stopping" /\ ~listen.lost
  /\ listen.dev = currentCharacteristic
  /\ linkUp[currentCharacteristic]
====
